---- MODULE Spec2Model ----
(***************************************************************************)
(* BlitzortungDataUpdateCoordinator (src/blitzortung/__init__.py): the     *)
(* coordinator's fields, the fetch/retry loop of fetch_data and the        *)
(* stream-consuming loop of _do_update, one action per stretch of code     *)
(* between two awaits.                                                     *)
(*                                                                         *)
(* Exceptions follow Python >= 3.8: asyncio.CancelledError is a            *)
(* BaseException, so the `except Exception` clauses do not catch a         *)
(* cancellation; async_timeout turns its own cancellation into             *)
(* asyncio.TimeoutError, which `except Exception` in _do_update catches.   *)
(***************************************************************************)
EXTENDS Integers, Sequences, FiniteSets, TLC

(* ------------------------------ bounds -------------------------------- *)

\* longest response stream (number of lines) the remote host serves
MaxLen == 3

\* largest event timestamp ("time") in a stream, in the model's unit of
\* half a second (5e8 ns)
MaxTime == 3

\* largest reading of time.time(), in seconds
MaxNow == 3
\* lines of the responses two overlapping polls hold together
MaxHeld == 2

(* ------------------------- program constants -------------------------- *)

\* const.MAX_RETRIES (const.py): the retry ceiling of fetch_data
MAX_RETRIES == 3

\* const.INACTIVITY_RESET_SECONDS (const.py): the inactivity threshold
INACTIVITY_RESET_SECONDS == 1

\* the 1e9 of `self.last_time / 1e9`: timestamp units per second; the model
\* counts timestamps in units of 5e8 ns, so a second is 2 units
UnitsPerSec == 2

\* size of the host pool: `% 3` in fetch_data and _do_update
NumHosts == 3

\* self.host_nr = 1 in __init__
InitialHost == 1

\* observer of the model: latitude, longitude (degrees), radius (km)
ObsLat == 0
ObsLon == 0
Radius == 150

\* 1000 * math.cos(ObsLat * pi / 180) for ObsLat = 0
CosMilli == 1000

\* polls (coroutines running _do_update); Spec runs poll 1 alone (serial)
Procs == {1, 2}
SerialProcs == {1}

(* --------------------------- response lines --------------------------- *)

\* places (lat, lon in degrees) a strike of the model can be at
Places == {<<1, 0>>, <<1, 1>>}

\* a line json.loads cannot parse, or that lacks "time", "lat" or "lon"
Malformed == [ok |-> FALSE, time |-> 0, lat |-> 0, lon |-> 0]

Records == {[ok |-> TRUE, time |-> t, lat |-> pl[1], lon |-> pl[2]] :
              t \in 1..MaxTime, pl \in Places}

Lines == Records \cup {Malformed}

(* ------------------------- compute_polar_coords ----------------------- *)

RECURSIVE SqrtSearch(_, _, _)
\* floor(sqrt(n)) by bisection, lo*lo <= n < hi*hi
SqrtSearch(n, lo, hi) ==
    IF hi - lo <= 1 THEN lo
    ELSE LET mid == (lo + hi) \div 2
         IN  IF mid * mid <= n THEN SqrtSearch(n, mid, hi)
                               ELSE SqrtSearch(n, lo, mid)

ISqrt(n) == SqrtSearch(n, 0, 46340)

\* round(sqrt(dx*dx + dy*dy) * 6371, 1), in tenths of a km.  The deltas are
\* kept in units of 1e-4 degree; 6371 * pi / 180 = 111.19 km per degree, so
\* one unit is 0.01112 km = 0.1112 tenths of a km.
DistanceTenths(lat, lon) ==
    LET dy == (lat - ObsLat) * 10000
        dx == ((lon - ObsLon) * 10000 * CosMilli) \div 1000
        n  == ISqrt(dx * dx + dy * dy)
    IN  (n * 1112 + 5000) \div 10000

\* atan(2^-i) for i = 0..16, in units of 1e-5 degree
AtanTable ==
    <<4500000, 2656505, 1403624, 712502, 357633, 178991, 89517, 44761,
      22381, 11191, 5595, 2798, 1399, 699, 350, 175, 87>>

RECURSIVE Cordic(_, _, _, _)
\* the angle of the vector (x, y), x > 0, in units of 1e-5 degree, added to
\* ang: the vector is turned onto the x axis by the angles of AtanTable
Cordic(x, y, i, ang) ==
    IF i > Len(AtanTable) THEN ang
    ELSE LET sx == x \div (2 ^ (i - 1))
             sy == y \div (2 ^ (i - 1))
         IN  IF y > 0
             THEN Cordic(x + sy, y - sx, i + 1, ang + AtanTable[i])
             ELSE Cordic(x - sy, y + sx, i + 1, ang - AtanTable[i])

\* math.atan2(a, b) * 180 / math.pi in units of 1e-5 degree
Atan2(a, b) ==
    IF b > 0 THEN Cordic(b * 1000, a * 1000, 1, 0)
    ELSE IF b < 0
         THEN (IF a >= 0 THEN 18000000 ELSE 0 - 18000000)
                 - Cordic((0 - b) * 1000, a * 1000, 1, 0)
         ELSE IF a > 0 THEN 9000000
              ELSE IF a < 0 THEN 0 - 9000000 ELSE 0

AzimuthSwapped(lat, lon) ==
    LET dy == (lat - ObsLat) * 10000
        dx == ((lon - ObsLon) * 10000 * CosMilli) \div 1000
    IN  (Atan2(dy, dx) + 50000) \div 100000
\* round(math.atan2(dx, dy) * 180 / math.pi), in degrees
AzimuthDeg(lat, lon) ==
    LET dy == (lat - ObsLat) * 10000
        dx == ((lon - ObsLon) * 10000 * CosMilli) \div 1000
    IN  (Atan2(dx, dy) + 50000) \div 100000

\* latitudes and longitudes (degrees) compute_polar_coords is applied to:
\* the deltas whose squares, in units of 1e-4 degree, fit 32-bit integers
Degrees == (0 - 3)..3
Grid == Degrees \X Degrees

\* the tables of distances and azimuths of the grid (evaluated once)
DistanceOf == [pl \in Grid |-> DistanceTenths(pl[1], pl[2])]
AzimuthOf == [pl \in Grid |-> AzimuthDeg(pl[1], pl[2])]

\* the record as compute_polar_coords annotates it
compute_polar_coords(rec) ==
    [time |-> rec.time, lat |-> rec.lat, lon |-> rec.lon,
     distance |-> DistanceOf[<<rec.lat, rec.lon>>],
     azimuth |-> AzimuthOf[<<rec.lat, rec.lon>>]]

(* ---------------------- the decisions of the code --------------------- *)

Max(a, b) == IF a >= b THEN a ELSE b

SetMax(S) == CHOOSE x \in S : \A y \in S : y <= x

NextHostShort(h) == (h + 1) % 2
\* self.host_nr = (self.host_nr + 1) % 3
NextHost(h) == (h + 1) % NumHosts

ExhaustedLate(n) == n > MAX_RETRIES
\* if try_nr >= const.MAX_RETRIES: raise
Exhausted(n) == n >= MAX_RETRIES

BackoffEarly(n) == 2 ^ (n - 1)
\* await asyncio.sleep(2 ** try_nr)
Backoff(n) == 2 ^ n

IsStaleStrict(t, w) == t < w
\* if t <= self.last_time: break
IsStale(t, w) == t <= w

CandidateLast(t, c) == t
\* last_time = max(t, last_time)
Candidate(t, c) == Max(t, c)

InRadiusAlways(ev) == TRUE
\* if data[ATTR_LIGHTNING_DISTANCE] <= self.radius
InRadius(ev) == ev.distance <= Radius * 10

CommitAlways(c, w) == c
\* if last_time > self.last_time: self.last_time = last_time
Commit(c, w) == IF c > w THEN c ELSE w

ResultAlways(initial, latest) == latest
\* return [] if initial else latest
Result(initial, latest) == IF initial THEN <<>> ELSE latest

(* -------------------------------- state ------------------------------- *)

VARIABLES
    host_nr,      \* self.host_nr
    last_time,    \* self.last_time, the watermark
    data,         \* self.data: what the last successful _do_update returned
    poll,         \* per poll: position and locals of fetch_data/_do_update
    seen,         \* history: timestamps accepted by successful polls so far
    succ,         \* history: successful polls so far, counted up to 2
    lastFailed,   \* history: host of the latest attempt if it failed, else -1
    obs           \* what the call made in the last step gave its caller
                  \* (is_inactive, latest_lightnings, compute_polar_coords)

vars == <<host_nr, last_time, data, poll, seen, succ, lastFailed, obs>>

\* no call of a reader was made in the last step
NoObs == [kind |-> "none", now |-> 0, flag |-> FALSE, events |-> <<>>]

NoHost == 0 - 1

\* a poll that is not running: locals cleared
IdlePoll ==
    [pc       |-> "idle",   \* idle, get, sleep, read, returned, raised
     why      |-> "none",   \* how the poll ended
     try_nr   |-> 0,        \* fetch_data's try_nr
     delay    |-> 0,        \* seconds of the asyncio.sleep under way
     initial  |-> FALSE,    \* _do_update's initial
     cand     |-> 0,        \* _do_update's local last_time
     latest   |-> <<>>,     \* _do_update's latest
     stream   |-> <<>>,     \* history: the lines of resp.content the loop
                            \* has read and not stopped at
     rest     |-> <<>>,     \* history: once the poll returned, timestamps
                            \* of the lines it left unconsumed
     target   |-> NoHost,   \* host the GET in flight was sent to
     w0       |-> 0,        \* history: watermark when the poll started
     nNew     |-> 0,        \* history: records that passed the staleness test
     attempts |-> 0,        \* history: GETs issued by the fetch_data call
                            \* under way, or that failed
     rot      |-> 0]        \* history: host rotations made during it

Init ==
    /\ host_nr = InitialHost
    /\ last_time = 0
    /\ data = <<>>
    /\ poll = [p \in Procs |-> IdlePoll]
    /\ seen = {}
    /\ succ = 0
    /\ lastFailed = NoHost
    /\ obs = NoObs

Running(p) == poll[p].pc \in {"get", "sleep", "read"}

(* ------------------------------- actions ------------------------------ *)

StartKeepsTryNr(p) ==
    /\ ~Running(p)
    /\ poll' = [poll EXCEPT ![p] =
                  [IdlePoll EXCEPT !.pc = "get",
                                   !.try_nr = IF poll[p].why = "exhausted"
                                              THEN 0 ELSE poll[p].try_nr,
                                   !.initial = (last_time = 0),
                                   !.target = host_nr,
                                   !.w0 = last_time,
                                   !.attempts = 1]]
    /\ lastFailed' = NoHost
    /\ obs' = NoObs
    /\ UNCHANGED <<host_nr, last_time, data, seen, succ>>

\* _do_update up to the first await: initial = not self.last_time; fetch_data:
\* try_nr = 0, the url is formatted with self.host_nr, the GET is awaited
Start(p) ==
    /\ ~Running(p)
    /\ poll' = [poll EXCEPT ![p] =
                  [IdlePoll EXCEPT !.pc = "get",
                                   !.initial = (last_time = 0),
                                   !.target = host_nr,
                                   !.w0 = last_time,
                                   !.attempts = 1]]
    /\ lastFailed' = NoHost
    /\ obs' = NoObs
    /\ UNCHANGED <<host_nr, last_time, data, seen, succ>>

\* the GET answers 200: fetch_data returns resp (its locals and the history
\* of the fetch are gone with it), the timeout block is left, resp.status is
\* 200 (the test after the block cannot fail), last_time and latest are set
\* up and the first readline is awaited
FetchOk(p) ==
    /\ poll[p].pc = "get"
    /\ poll' = [poll EXCEPT ![p].pc = "read",
                            ![p].cand = last_time,
                            ![p].latest = <<>>,
                            ![p].stream = <<>>,
                            ![p].try_nr = 0,
                            ![p].target = NoHost,
                            ![p].attempts = 0,
                            ![p].rot = 0]
    /\ obs' = NoObs
    /\ UNCHANGED <<host_nr, last_time, data, seen, succ, lastFailed>>

\* the GET raises or answers a status other than 200: rotate, count, and
\* either sleep 2 ** try_nr or re-raise; the re-raised error is caught by
\* _do_update, which rotates again and raises it to the caller
FetchFail(p) ==
    /\ poll[p].pc = "get"
    /\ LET n == poll[p].try_nr + 1
           h == NextHost(host_nr)
       IN  IF Exhausted(n)
           THEN /\ host_nr' = NextHost(h)
                /\ poll' = [poll EXCEPT ![p].pc = "raised",
                                        ![p].why = "exhausted",
                                        ![p].try_nr = n,
                                        ![p].rot = @ + 2]
           ELSE /\ host_nr' = h
                /\ poll' = [poll EXCEPT ![p].pc = "sleep",
                                        ![p].try_nr = n,
                                        ![p].delay = Backoff(n),
                                        ![p].rot = @ + 1]
    /\ lastFailed' = poll[p].target
    /\ obs' = NoObs
    /\ UNCHANGED <<last_time, data, seen, succ>>

\* asyncio.sleep(2 ** try_nr) is over: next turn of the loop, the url is
\* formatted with the current self.host_nr and the GET is awaited
Retry(p) ==
    /\ poll[p].pc = "sleep"
    /\ poll' = [poll EXCEPT ![p].pc = "get",
                            ![p].delay = 0,
                            ![p].target = host_nr,
                            ![p].attempts = @ + 1]
    /\ lastFailed' = NoHost
    /\ obs' = NoObs
    /\ UNCHANGED <<host_nr, last_time, data, seen, succ>>

TimeoutNoRotate(p) ==
    /\ poll[p].pc \in {"get", "sleep"}
    /\ poll' = [poll EXCEPT ![p].pc = "raised", ![p].why = "timeout",
                            ![p].delay = 0]
    /\ lastFailed' = IF poll[p].pc = "get" THEN poll[p].target ELSE lastFailed
    /\ obs' = NoObs
    /\ UNCHANGED <<host_nr, last_time, data, seen, succ>>

\* const.REQUEST_TIMEOUT elapses while fetch_data waits (on the GET or in the
\* backoff sleep): asyncio.TimeoutError leaves the timeout block, _do_update
\* rotates the host and raises it to the caller
Timeout(p) ==
    /\ poll[p].pc \in {"get", "sleep"}
    /\ host_nr' = NextHost(host_nr)
    /\ poll' = [poll EXCEPT ![p].pc = "raised",
                            ![p].why = "timeout",
                            ![p].delay = 0,
                            ![p].rot = @ + 1]
    /\ lastFailed' = IF poll[p].pc = "get" THEN poll[p].target ELSE lastFailed
    /\ obs' = NoObs
    /\ UNCHANGED <<last_time, data, seen, succ>>

\* the caller cancels the task while it is suspended: CancelledError
\* propagates through both coroutines, no handler runs
Cancel(p) ==
    /\ Running(p)
    /\ poll' = [poll EXCEPT ![p].pc = "raised", ![p].why = "cancelled",
                            ![p].delay = 0]
    /\ obs' = NoObs
    /\ UNCHANGED <<host_nr, last_time, data, seen, succ, lastFailed>>

\* lines of its response a poll holds: read, or left unread when it returned
Held(q) == Len(poll[q].stream) + Len(poll[q].rest)

\* lines the response of poll p can still give: the response of a poll that
\* runs alone has at most MaxLen lines, the responses of two polls that
\* overlap have at most MaxHeld lines together
Room(p) ==
    IF \A q \in Procs \ {p} : poll[q].pc = "idle"
    THEN MaxLen - Held(p)
    ELSE MaxHeld - Held(1) - Held(2)

\* the response may still hold a line
MoreLines(p) == Room(p) > 0

\* timestamps of lines left unread, 0 for a line that is malformed
RestTimes(n) == UNION {[1..k -> 0..MaxTime] : k \in 0..n}

\* timestamps of the records the poll took as new
Accepted(p) == {poll[p].stream[i].time : i \in 1..poll[p].nNew}

ReadRecordInRadiusOnly(p) ==
    /\ poll[p].pc = "read"
    /\ MoreLines(p)
    /\ \E rec \in Records :
         /\ ~IsStale(rec.time, last_time)
         /\ LET ev == compute_polar_coords(rec)
            IN  poll' = [poll EXCEPT
                  ![p].cand = IF InRadius(ev) THEN Candidate(ev.time, @) ELSE @,
                  ![p].latest = IF InRadius(ev) THEN Append(@, ev) ELSE @,
                  ![p].stream = Append(@, rec),
                  ![p].nNew = @ + 1]
    /\ obs' = NoObs
    /\ UNCHANGED <<host_nr, last_time, data, seen, succ, lastFailed>>

\* readline gives a record newer than the watermark: track the candidate,
\* compute its polar coordinates, keep it if within the radius, read on
ReadRecord(p) ==
    /\ poll[p].pc = "read"
    /\ MoreLines(p)
    /\ \E rec \in Records :
         /\ ~IsStale(rec.time, last_time)
         /\ LET ev == compute_polar_coords(rec)
            IN  poll' = [poll EXCEPT
                  ![p].cand = Candidate(ev.time, @),
                  ![p].latest = IF InRadius(ev) THEN Append(@, ev) ELSE @,
                  ![p].stream = Append(@, rec),
                  ![p].nNew = @ + 1]
    /\ obs' = NoObs
    /\ UNCHANGED <<host_nr, last_time, data, seen, succ, lastFailed>>

ReadBadCommits(p) ==
    /\ poll[p].pc = "read"
    /\ MoreLines(p)
    /\ last_time' = Commit(poll[p].cand, last_time)
    /\ poll' = [poll EXCEPT ![p].pc = "raised",
                            ![p].why = "malformed",
                            ![p].stream = Append(@, Malformed)]
    /\ obs' = NoObs
    /\ UNCHANGED <<host_nr, data, seen, succ, lastFailed>>

ReadBadRotates(p) ==
    /\ poll[p].pc = "read"
    /\ MoreLines(p)
    /\ host_nr' = NextHost(host_nr)
    /\ poll' = [poll EXCEPT ![p].pc = "raised",
                            ![p].why = "malformed",
                            ![p].stream = Append(@, Malformed)]
    /\ obs' = NoObs
    /\ UNCHANGED <<last_time, data, seen, succ, lastFailed>>

\* readline gives a line json.loads (or the field access) fails on: the
\* exception leaves _do_update
ReadBad(p) ==
    /\ poll[p].pc = "read"
    /\ MoreLines(p)
    /\ poll' = [poll EXCEPT ![p].pc = "raised",
                            ![p].why = "malformed",
                            ![p].stream = Append(@, Malformed)]
    /\ obs' = NoObs
    /\ UNCHANGED <<host_nr, last_time, data, seen, succ, lastFailed>>

\* the ways the loop is left, each given by the timestamps of the lines
\* left unconsumed: none at end of stream (`if not line: break`), or those
\* of a well-formed record not newer than the watermark and of whatever
\* the stream holds after it
Endings(p) ==
    {<<>>} \cup
    {<<t>> \o tail :
        t \in {u \in 1..MaxTime : MoreLines(p) /\ IsStale(u, last_time)},
        tail \in RestTimes(Room(p) - 1)}

FinishKeepsLastRead(p) ==
    /\ poll[p].pc = "read"
    /\ \E r \in Endings(p) :
         /\ last_time' = IF r # <<>> THEN r[1]
                                     ELSE Commit(poll[p].cand, last_time)
         /\ data' = Result(poll[p].initial, poll[p].latest)
         /\ poll' = [poll EXCEPT ![p].pc = "returned",
                                 ![p].why = IF r # <<>> THEN "stale" ELSE "eof",
                                 ![p].rest = r]
    /\ seen' = seen \cup Accepted(p)
    /\ succ' = IF succ < 2 THEN succ + 1 ELSE succ
    /\ obs' = NoObs
    /\ UNCHANGED <<host_nr, lastFailed>>

FinishSkipsStale(p) ==
    /\ poll[p].pc = "read"
    /\ \E r \in Endings(p) :
         /\ last_time' = Commit(Max(poll[p].cand,
                                    SetMax({0} \cup {r[j] : j \in 1..Len(r)})),
                                last_time)
         /\ data' = Result(poll[p].initial, poll[p].latest)
         /\ poll' = [poll EXCEPT ![p].pc = "returned",
                                 ![p].why = IF r # <<>> THEN "stale" ELSE "eof",
                                 ![p].rest = r]
    /\ seen' = seen \cup Accepted(p)
    /\ succ' = IF succ < 2 THEN succ + 1 ELSE succ
    /\ obs' = NoObs
    /\ UNCHANGED <<host_nr, lastFailed>>

\* the loop is left: commit the candidate watermark if it is larger and
\* return; DataUpdateCoordinator stores the returned list in self.data
Finish(p) ==
    /\ poll[p].pc = "read"
    /\ \E r \in Endings(p) :
         /\ last_time' = Commit(poll[p].cand, last_time)
         /\ data' = Result(poll[p].initial, poll[p].latest)
         /\ poll' = [poll EXCEPT ![p].pc = "returned",
                                 ![p].why = IF r # <<>> THEN "stale" ELSE "eof",
                                 ![p].rest = r]
    /\ seen' = seen \cup Accepted(p)
    /\ succ' = IF succ < 2 THEN succ + 1 ELSE succ
    /\ obs' = NoObs
    /\ UNCHANGED <<host_nr, lastFailed>>

(* ------------------------------- readers ------------------------------ *)

is_inactiveInclusive(now) ==
    now * UnitsPerSec - last_time >= INACTIVITY_RESET_SECONDS * UnitsPerSec
\* dt = time.time() - self.last_time / 1e9; return dt > INACTIVITY_RESET_SECONDS
\* (both sides of the comparison multiplied by the units per second)
is_inactive(now) ==
    now * UnitsPerSec - last_time > INACTIVITY_RESET_SECONDS * UnitsPerSec

\* reversed(s)
Reversed(s) == [i \in 1..Len(s) |-> s[Len(s) + 1 - i]]

latest_lightningsForward == data
\* what the generator yields: for lightning in reversed(self.data or ())
latest_lightnings == Reversed(data)

\* the property is_inactive is read while time.time() gives n.  Readings
\* made between the same two steps of a poll see the same fields, so one
\* call per gap is modelled.
ReadIsInactive ==
    /\ obs = NoObs
    /\ \E n \in 0..MaxNow :
         obs' = [kind |-> "is_inactive", now |-> n, flag |-> is_inactive(n),
                 events |-> <<>>]
    /\ UNCHANGED <<host_nr, last_time, data, poll, seen, succ, lastFailed>>

\* latest_lightnings() is called and iterated to its end
ReadLatest ==
    /\ obs = NoObs
    /\ obs' = [kind |-> "latest", now |-> 0, flag |-> FALSE,
               events |-> latest_lightnings]
    /\ UNCHANGED <<host_nr, last_time, data, poll, seen, succ, lastFailed>>

Next ==
    \E p \in SerialProcs :
        \/ Start(p)
        \/ FetchOk(p)
        \/ FetchFail(p)
        \/ Retry(p)
        \/ Timeout(p)
        \/ Cancel(p)
        \/ ReadRecord(p)
        \/ ReadBad(p)
        \/ Finish(p)

Spec == Init /\ [][Next]_vars

\* compute_polar_coords applied to a record of any place of the grid
ComputePolar ==
    /\ \E t \in 1..MaxTime, pl \in Grid :
         obs' = [kind |-> "polar", now |-> 0, flag |-> FALSE,
                 events |-> <<compute_polar_coords(
                                 [ok |-> TRUE, time |-> t,
                                  lat |-> pl[1], lon |-> pl[2]])>>]
    /\ UNCHANGED <<host_nr, last_time, data, poll, seen, succ, lastFailed>>

NextPolar == ComputePolar

SpecPolar == Init /\ [][NextPolar]_vars

\* the polls, and the consumers reading is_inactive and latest_lightnings
\* between any two steps of them
NextRead ==
    \/ Next
    \/ ReadIsInactive
    \/ ReadLatest

SpecRead == Init /\ [][NextRead]_vars

\* what the event loop guarantees: a timer that is armed fires.  The timer of
\* async_timeout is armed while fetch_data is awaited (lines 161-162) and
\* that of asyncio.sleep while the backoff lasts; nothing makes the remote
\* host answer the GET or send the next line.
LiveSpec ==
    /\ Spec
    /\ \A p \in SerialProcs : WF_vars(Timeout(p)) /\ WF_vars(Retry(p))

\* the single-writer discipline of the scheduler given up: two calls of
\* _do_update in flight, interleaved at their awaits (the GET, the backoff
\* sleep, each readline); between two awaits a call runs alone.  Each of
\* the two calls is made once, in either order, from the state after
\* construction, and the second is made before the first gets its response
\* (a call made after the other returned is a serial one, see Spec; made
\* later during the other's fetch or read loop it would find the same
\* watermark, which only a return assigns).
NextConc ==
    \/ \E p \in Procs : Start(p) /\ poll[p].pc = "idle"
    \/ /\ \A q \in Procs : poll[q].pc # "idle"
       /\ \E p \in Procs :
             \/ FetchOk(p)
             \/ FetchFail(p)
             \/ Retry(p)
             \/ Timeout(p)
             \/ Cancel(p)
             \/ ReadRecord(p)
             \/ ReadBad(p)
             \/ Finish(p)

SpecConc == Init /\ [][NextConc]_vars

(* ------------------------ helpers of the properties ------------------- *)

\* timestamps of the whole stream of a poll that returned, in order
AllTimes(p) ==
    [i \in 1..(Len(poll[p].stream) + Len(poll[p].rest)) |->
        IF i <= Len(poll[p].stream)
        THEN poll[p].stream[i].time
        ELSE poll[p].rest[i - Len(poll[p].stream)]]

RECURSIVE NewPrefixLen(_, _)
\* length of the longest prefix of ts whose timestamps all exceed w
NewPrefixLen(ts, w) ==
    IF ts = <<>> \/ Head(ts) <= w THEN 0 ELSE 1 + NewPrefixLen(Tail(ts), w)

\* a poll ends in this step
Ends(p) == poll[p].why = "none" /\ poll'[p].why # "none"

(* ------------------------------- claims ------------------------------- *)

\* C1: the watermark never decreases: after every step, of successful and of
\* failed polls alike, it is at least what it was, and it is never below 0.
C1_WatermarkMonotone == [][last_time' >= last_time /\ last_time >= 0]_vars

C1_Witness ==
    \E p \in Procs : /\ poll[p].pc = "raised"
                     /\ poll[p].why \in {"exhausted", "timeout", "malformed"}
                     /\ succ = 2
                     /\ last_time > 1

\* C2: under serial polling every event a poll returns has a timestamp
\* strictly greater than the watermark at the start of that poll and than
\* the timestamp of every record an earlier successful poll accepted.
C2_NoRedelivery ==
    [][\A p \in Procs :
         (poll'[p].pc = "returned" /\ poll[p].pc # "returned") =>
            \A i \in 1..Len(data') :
               /\ data'[i].time > poll[p].w0
               /\ \A t \in seen : data'[i].time > t]_vars

C2_Witness ==
    \E p \in Procs : /\ poll[p].pc = "returned"
                     /\ Len(data) >= 2
                     /\ poll[p].w0 > 0
                     /\ succ = 2

\* C3: a poll that is under way or has failed (retries exhausted, timeout,
\* malformed line after newer records were read, cancellation) has left the
\* watermark exactly as it was when the poll started.
C3_FailedPollKeepsWatermark ==
    \A p \in Procs :
        (Running(p) \/ poll[p].pc = "raised") => last_time = poll[p].w0

C3_Witness ==
    \E p \in Procs : /\ poll[p].pc = "raised"
                     /\ poll[p].why = "malformed"
                     /\ poll[p].cand > last_time
                     /\ last_time > 0

\* C4 as stated: the first successful poll returns an empty result and the
\* watermark is set after it.
C4_Original ==
    \A p \in Procs :
        (poll[p].pc = "returned" /\ succ = 1) => (data = <<>> /\ last_time > 0)

\* C4 as amended: the first successful poll returns an empty result whatever
\* it collected and commits the highest timestamp it consumed; the watermark
\* is set after it exactly when it consumed at least one record.
C4_FirstPollSuppressed ==
    \A p \in Procs :
        (poll[p].pc = "returned" /\ succ = 1) =>
            /\ data = <<>>
            /\ last_time = SetMax({0} \cup Accepted(p))
            /\ (last_time > 0 <=> poll[p].nNew > 0)

C4_Witness ==
    \E p \in Procs : /\ poll[p].pc = "returned"
                     /\ succ = 1
                     /\ Len(poll[p].latest) >= 2
                     /\ data = <<>>
                     /\ last_time > 0

\* C5: every event of a returned result carries the distance that
\* compute_polar_coords gives for its place, and that distance is at most
\* the radius.
C5_ReturnedWithinRadius ==
    \A p \in Procs :
        poll[p].pc = "returned" =>
            \A i \in 1..Len(data) :
               /\ data[i].distance = DistanceTenths(data[i].lat, data[i].lon)
               /\ data[i].distance <= Radius * 10

C5_Witness ==
    \E p \in Procs :
        /\ poll[p].pc = "returned"
        /\ Len(data) >= 1
        /\ \E i \in 1..poll[p].nNew :
              DistanceTenths(poll[p].stream[i].lat, poll[p].stream[i].lon)
                 > Radius * 10

\* C6 as stated: with a set prior watermark w, the records taken as new are
\* exactly the records of the stream with timestamp greater than w, and the
\* watermark afterwards is the maximum of w and those timestamps.
C6_Original ==
    \A p \in Procs :
        (poll[p].pc = "returned" /\ poll[p].w0 > 0) =>
            LET newer == {i \in DOMAIN AllTimes(p) : AllTimes(p)[i] > poll[p].w0}
            IN  /\ poll[p].nNew = Cardinality(newer)
                /\ last_time =
                     SetMax({poll[p].w0} \cup {AllTimes(p)[i] : i \in newer})

\* C6 as amended: with a set prior watermark w, the records taken as new are
\* exactly those of the longest prefix of the stream whose timestamps all
\* exceed w, and the watermark afterwards is the maximum of w and those
\* timestamps; a stream with timestamps [1,2,3] (as [5,10,15]) and w = 2 (as
\* 10) yields no new event and leaves the watermark at 2.
C6_NewIsLeadingRun ==
    \A p \in Procs :
        (poll[p].pc = "returned" /\ poll[p].w0 > 0) =>
            LET k == NewPrefixLen(AllTimes(p), poll[p].w0)
            IN  /\ poll[p].nNew = k
                /\ last_time =
                     SetMax({poll[p].w0} \cup {AllTimes(p)[i] : i \in 1..k})
                /\ (AllTimes(p) = <<1, 2, 3>> /\ poll[p].w0 = 2) =>
                      (poll[p].nNew = 0 /\ last_time = 2)

C6_Witness ==
    \E p \in Procs : /\ poll[p].pc = "returned"
                     /\ poll[p].w0 = 2
                     /\ AllTimes(p) = <<1, 2, 3>>

\* C7: the radius filter does not touch the watermark: after a successful
\* poll the watermark is at least the timestamp of every consumed record,
\* those dropped for their distance included, and it is the prior watermark
\* or the timestamp of a consumed record.
C7_FilterLeavesWatermark ==
    \A p \in Procs :
        poll[p].pc = "returned" =>
            /\ \A i \in 1..poll[p].nNew : last_time >= poll[p].stream[i].time
            /\ last_time \in {poll[p].w0} \cup Accepted(p)

C7_Witness ==
    \E p \in Procs :
        /\ poll[p].pc = "returned"
        /\ \E i \in 1..poll[p].nNew :
              /\ DistanceTenths(poll[p].stream[i].lat, poll[p].stream[i].lon)
                    > Radius * 10
              /\ poll[p].stream[i].time = last_time
              /\ \A j \in 1..Len(poll[p].latest) :
                    poll[p].latest[j].time < last_time
        /\ Len(poll[p].latest) >= 1

\* C8: a fetch never makes more attempts than the retry ceiling; when the
\* ceiling is reached the failure is raised to the caller, after the host
\* index was advanced at least twice.
C8_RetriesBounded ==
    \A p \in Procs :
        /\ poll[p].attempts <= MAX_RETRIES
        /\ poll[p].try_nr <= MAX_RETRIES
        /\ poll[p].try_nr = MAX_RETRIES =>
              (poll[p].pc = "raised" /\ poll[p].why = "exhausted")
        /\ poll[p].why = "exhausted" =>
              (poll[p].attempts = MAX_RETRIES /\ poll[p].rot >= 2)

C8_Witness ==
    \E p \in Procs : poll[p].why = "exhausted" /\ poll[p].attempts = 3

\* C9: a fetch attempt that follows a failed one (a retry in the same poll,
\* or the first attempt of the next poll) goes to another host than the one
\* that just failed.
C9_RetryOnOtherHost ==
    [][\A p \in Procs :
         (poll'[p].pc = "get" /\ poll[p].pc # "get" /\ lastFailed # NoHost) =>
            poll'[p].target # lastFailed]_vars

C9_Witness ==
    \E p \in Procs : /\ poll[p].pc = "get"
                     /\ poll[p].try_nr = 2
                     /\ succ = 0
                     /\ poll[p].target = InitialHost

\* C10: the step that ends a poll by timeout or by exhausted retries returns
\* no result (self.data stays as it was, the poll raises) and advances the
\* host index: once for a timeout, twice when fetch_data gave up (its own
\* rotation and that of _do_update).
C10_FetchFailureRaises ==
    [][\A p \in Procs :
         (Ends(p) /\ poll'[p].why \in {"timeout", "exhausted"}) =>
            /\ poll'[p].pc = "raised"
            /\ data' = data
            /\ last_time' = last_time
            /\ host_nr' # host_nr
            /\ host_nr' = (host_nr + (IF poll'[p].why = "timeout" THEN 1 ELSE 2)) % 3
       ]_vars

C10_Witness ==
    \E p \in Procs : /\ poll[p].pc = "raised"
                     /\ poll[p].why = "timeout"
                     /\ poll[p].try_nr = 2
                     /\ data # <<>>

\* C11 as stated: the overall poll is bounded by the timeout: a poll under
\* way in any phase (GET, backoff sleep, line read) eventually ends, even
\* if the remote stream never reaches its end.
C11_Original == \A p \in SerialProcs : Running(p) ~> ~Running(p)

\* the coordinator's fields and the polls are as they were
Untouched == UNCHANGED <<host_nr, last_time, data, poll, seen, succ, lastFailed>>

\* C12: is_inactive is true exactly when the clock, in seconds, minus the
\* watermark converted to seconds exceeds the threshold (for a clock in whole
\* seconds: when clock - threshold exceeds the whole seconds of the
\* watermark); reading it changes no state; and between a reading that is
\* true and a later one that is false lies a poll that advanced the watermark.
C12_InactiveIffQuiet ==
    [][/\ obs'.kind = "is_inactive" =>
             /\ obs'.flag <=> (obs'.now - INACTIVITY_RESET_SECONDS
                                  > last_time \div UnitsPerSec)
             /\ Untouched
       /\ \A n1 \in 0..MaxNow : \A n2 \in n1..MaxNow :
             (is_inactive(n1) /\ ~(is_inactive(n2))') =>
                /\ last_time' > last_time
                /\ \E p \in Procs : /\ poll[p].pc = "read"
                                    /\ poll'[p].pc = "returned"
      ]_vars

C12_Witness ==
    /\ obs.kind = "is_inactive"
    /\ obs.flag
    /\ obs.now = 2
    /\ last_time = 1

\* C13: latest_lightnings yields the stored events (self.data) in the
\* reverse of their stored order, nothing when none is stored, and leaves
\* the watermark, the host index, the stored events and the polls alone (it
\* fetches nothing), so that a second call yields the same.
C13_LatestIsReversedData ==
    [][obs'.kind = "latest" =>
          /\ Len(obs'.events) = Len(data)
          /\ \A i \in 1..Len(data) : obs'.events[i] = data[Len(data) + 1 - i]
          /\ Untouched
      ]_vars

C13_Witness ==
    /\ obs.kind = "latest"
    /\ Len(obs.events) >= 2
    /\ obs.events[1].time # obs.events[2].time
    /\ obs.events[1] = data[Len(data)]

\* C14: with the observer at (0,0), an event at (1,0), one degree north, gets
\* azimuth 0 and a distance of 111 km to the nearest km (110.5 to 111.5 km,
\* in tenths); an event at (0,1), one degree east, gets azimuth 90.
C14_PolarOfNorthAndEast ==
    (obs.kind = "polar" /\ ObsLat = 0 /\ ObsLon = 0) =>
        LET ev == obs.events[1]
        IN  /\ (ev.lat = 1 /\ ev.lon = 0) =>
                  (ev.azimuth = 0 /\ ev.distance > 0
                     /\ ev.distance >= 1105 /\ ev.distance <= 1115)
            /\ (ev.lat = 0 /\ ev.lon = 1) => ev.azimuth = 90

C14_Witness ==
    /\ obs.kind = "polar"
    /\ obs.events[1].lat = 0
    /\ obs.events[1].lon = 1
    /\ obs.events[1].azimuth = 90
    /\ obs.events[1].distance = 1112

\* C15: a poll that stopped at a record not newer than the watermark took
\* nothing from the lines after it: the records taken as new are those read
\* before it, every returned event is one of them, and the watermark is the
\* maximum of the prior watermark and their timestamps, whatever timestamps
\* follow the record it stopped at.
C15_StopsAtFirstStale ==
    \A p \in Procs :
        (poll[p].pc = "returned" /\ poll[p].why = "stale") =>
            /\ poll[p].rest[1] <= poll[p].w0
            /\ poll[p].nNew = Len(poll[p].stream)
            /\ Len(poll[p].latest) <= poll[p].nNew
            /\ \A i \in 1..Len(poll[p].latest) :
                  \E j \in 1..poll[p].nNew :
                     /\ poll[p].latest[i].time = poll[p].stream[j].time
                     /\ poll[p].latest[i].lat = poll[p].stream[j].lat
                     /\ poll[p].latest[i].lon = poll[p].stream[j].lon
            /\ data \in {<<>>, poll[p].latest}
            /\ last_time = SetMax({poll[p].w0} \cup Accepted(p))

C15_Witness ==
    \E p \in Procs :
        /\ poll[p].pc = "returned"
        /\ poll[p].why = "stale"
        /\ poll[p].nNew >= 1
        /\ \E j \in 2..Len(poll[p].rest) : poll[p].rest[j] > last_time

\* C16 as stated: only the first successful poll is suppressed: every later
\* successful poll returns the in-radius records it collected, in stream
\* order, also when the first successful poll saw an empty stream.
C16_Original ==
    \A p \in Procs :
        (poll[p].pc = "returned" /\ succ = 2) => data = poll[p].latest

RECURSIVE Doubled(_)
\* 1 doubled k times
Doubled(k) == IF k = 0 THEN 1 ELSE 2 * Doubled(k - 1)

\* C17: while a poll sleeps after its k-th failed attempt, k is below the
\* ceiling and the sleep lasts 2^k seconds, more than the one before; a
\* fetch that gave up sleeps no more; attempts are sequential: every attempt
\* issued but the one in flight has failed, and none is in flight during a
\* sleep.
C17_BackoffDoubles ==
    \A p \in Procs :
        /\ poll[p].pc = "sleep" =>
              /\ poll[p].try_nr >= 1
              /\ poll[p].try_nr < MAX_RETRIES
              /\ poll[p].delay = Doubled(poll[p].try_nr)
              /\ poll[p].delay > Doubled(poll[p].try_nr - 1)
              /\ poll[p].attempts = poll[p].try_nr
        /\ poll[p].pc = "get" =>
              (poll[p].delay = 0 /\ poll[p].attempts = poll[p].try_nr + 1)
        /\ poll[p].pc # "sleep" => poll[p].delay = 0
        /\ poll[p].why = "exhausted" =>
              (poll[p].pc = "raised" /\ poll[p].delay = 0)

C17_Witness ==
    \E p \in Procs : /\ poll[p].pc = "sleep"
                     /\ poll[p].try_nr = 2
                     /\ poll[p].delay = 4

\* C18: the host index changes only in a step in which a fetch fails (a GET
\* fails or the timeout fires while fetch_data waits); a poll that is
\* reading its response, returning or failing on a malformed line, and the
\* readers latest_lightnings and is_inactive, leave it alone; and it stays
\* within the pool of 3 hosts.
C18_HostChangesOnFetchFailure ==
    [][/\ host_nr' \in 0..2
       /\ host_nr' # host_nr =>
             \E p \in Procs :
                /\ poll[p].pc \in {"get", "sleep"}
                /\ \/ poll'[p].pc = "sleep" /\ poll[p].pc = "get"
                   \/ poll'[p].pc = "raised"
                        /\ poll'[p].why \in {"exhausted", "timeout"}
       /\ (\E p \in Procs : poll[p].pc = "read") => host_nr' = host_nr
       /\ obs'.kind \in {"latest", "is_inactive"} => host_nr' = host_nr
      ]_vars

C18_Witness ==
    \E p \in Procs : /\ poll[p].pc = "raised"
                     /\ poll[p].why = "malformed"
                     /\ poll[p].nNew >= 1
                     /\ host_nr = InitialHost
                     /\ succ = 0
                     /\ data = <<>>

\* C19: every poll starts its fetch with the attempt counter at zero and one
\* GET issued, whatever polls failed before it, so that a fetch gives up
\* only after the full ceiling of attempts; what a starting poll keeps from
\* the past is the watermark and the host index alone.
C19_RetryBudgetPerPoll ==
    [][\A p \in Procs :
         /\ (~Running(p) /\ poll'[p].pc = "get") =>
               /\ poll'[p].try_nr = 0
               /\ poll'[p].attempts = 1
               /\ poll'[p].delay = 0
               /\ poll'[p].target = host_nr
               /\ poll'[p].initial = (last_time = 0)
         /\ poll'[p].why = "exhausted" => poll'[p].attempts = MAX_RETRIES
      ]_vars

C19_Witness ==
    \E p \in Procs : /\ poll[p].why = "exhausted"
                     /\ poll[p].attempts = 3
                     /\ host_nr = 0
                     /\ succ = 0

\* C20: with two polls in flight, interleaved at their awaits, the watermark
\* never decreases: a returning poll leaves the larger of its candidate and
\* the watermark stored at that moment, so a poll that returns with a
\* candidate below a watermark another poll committed meanwhile changes
\* nothing, and no other step assigns the watermark.
C20_MonotoneUnderOverlap ==
    [][/\ last_time' >= last_time
       /\ \A p \in Procs :
            (poll[p].pc = "read" /\ poll'[p].pc = "returned") =>
               /\ last_time' = Max(poll[p].cand, last_time)
               /\ poll[p].cand < last_time => last_time' = last_time
       /\ (\A p \in Procs : poll'[p].pc # "returned" \/ poll[p].pc = "returned")
             => last_time' = last_time
      ]_vars

C20_Witness ==
    \E p, q \in Procs :
        /\ p # q
        /\ poll[p].pc = "returned"
        /\ poll[q].pc = "returned"
        /\ poll[p].nNew >= 1
        /\ poll[q].nNew >= 1
        /\ poll[q].w0 < poll[p].cand
        /\ poll[p].cand < poll[q].cand
        /\ poll[p].w0 < poll[q].cand
        /\ last_time = poll[q].cand

====
